---- MODULE Spec2Model ----
(***************************************************************************)
(* Personal finance tracker: the Session Manager (AuthContext.tsx) and the *)
(* Transaction Store / Analytics Aggregator (TransactionContext.tsx,       *)
(* src/unnamed/part_001).                                                  *)
(*                                                                         *)
(* Both are React providers.  A provider's functions are closures created  *)
(* by a render: they read the values of `user` and `transactions` that the *)
(* render captured, not the latest state.  The model therefore keeps the   *)
(* React state (user, transactions) and, separately, the values captured   *)
(* by the closures of the last render (rendered); Render is React's        *)
(* re-render, which happens after a handler has returned.                  *)
(*                                                                         *)
(* Representation.                                                         *)
(*  - An instant is [day, ms]: whole days since the Unix epoch and the     *)
(*    milliseconds of that day (ms since epoch = day * DayMs + ms), so     *)
(*    that millisecond values stay inside TLC's integers.                  *)
(*  - A date string is [day, ms, frac]: the instant it denotes and whether *)
(*    it is written with a fraction ("...:00.000Z") or not ("...:00Z").    *)
(*    Only valid ISO-8601 UTC strings are drawn as inputs.                 *)
(*  - A transaction id is a decimal string; it is modelled by the number   *)
(*    it denotes, as an instant (seed id "1" is [day 0, ms 1]).            *)
(*  - A category string is the sequence of its segments between hyphens    *)
(*    ("Food" is <<"Food">>, "Co-pay" is <<"Co", "pay">>), which is what   *)
(*    the grouping key of getCategoryData and its split('-') act on.       *)
(*  - Dates are rendered in the UTC time zone; amounts are integers.       *)
(*  - JSON text is modelled as tuples in key order.                        *)
(***************************************************************************)
EXTENDS Integers, Sequences, FiniteSets, TLC

VARIABLES
    MOCK_USERS,     \* module-level account registry (AuthContext.tsx:26)
    user,           \* AuthProvider state: the session, or null
    isLoading,      \* AuthProvider state
    transactions,   \* TransactionProvider state: the ledger
    localStorage,   \* keys "user" and "transactions": JSON text or null
    rendered,       \* [user, transactions] captured by the last render
    timers,         \* pending setTimeout callbacks of login/register, FIFO
    now,            \* the wall clock (Date.now())
    phase,          \* "mounted" -> "loaded" -> "ready" (the mount effects)
    last,           \* history: the last operation and its outcome
    addsSinceRender,\* history: adds performed since the last render
    shown,          \* history: the adds the last render was the next view of
    calls           \* history: how many calls the environment has made

vars == <<MOCK_USERS, user, isLoading, transactions, localStorage, rendered,
          timers, now, phase, last, addsSinceRender, shown, calls>>

-----------------------------------------------------------------------------
(* Bounds of the model *)

\* calls made by the environment in one behaviour: login, register, logout,
\* addTransaction, a page reload, or a step of the clock
MaxCalls == 3
\* largest explicit limit passed to getRecentTransactions
MaxLimit == 3

-----------------------------------------------------------------------------
(* Values *)

null == [isNull |-> TRUE]

DayMs == 86400000

T(d, m) == [day |-> d, ms |-> m]

\* sign of (x - y) for two instants
TimeCmp(x, y) ==
    IF x.day # y.day THEN (IF x.day < y.day THEN -1 ELSE 1)
    ELSE IF x.ms # y.ms THEN (IF x.ms < y.ms THEN -1 ELSE 1)
    ELSE 0

\* new Date(str).getTime()
getTime(str) == T(str.day, str.ms)

\* new Date(t).toISOString(): always written with milliseconds
toISOString(t) == [day |-> t.day, ms |-> t.ms, frac |-> TRUE]

\* a literal "YYYY-MM-DDTHH:MM:SSZ" written without milliseconds
IsoZ(d, m) == [day |-> d, ms |-> m, frac |-> FALSE]

\* Date.now().toString()
NowId(t) == T(t.day, t.ms)

MOCK_USERS_INITIAL ==
    << [id |-> "1", name |-> "Admin User", email |-> "admin@example.com",
        password |-> "admin123", isAdmin |-> TRUE],
       [id |-> "2", name |-> "Test User", email |-> "user@example.com",
        password |-> "user123", isAdmin |-> FALSE] >>

Tx(i, u, a, ty, c, desc, dt) ==
    [id |-> i, userId |-> u, amount |-> a, type |-> ty, category |-> c,
     description |-> desc, date |-> dt]

SAMPLE_TRANSACTIONS ==
    << Tx(T(0, 1), "1", 50000, "income", <<"Salary">>, "Monthly salary",
          IsoZ(19448, 36000000)),
       Tx(T(0, 2), "1", 5000, "expense", <<"Food">>, "Grocery shopping",
          IsoZ(19452, 55800000)),
       Tx(T(0, 3), "2", 25000, "income", <<"Freelance">>, "Website development",
          IsoZ(19457, 33300000)),
       Tx(T(0, 4), "2", 2500, "expense", <<"Transport">>, "Fuel",
          IsoZ(19459, 66000000)),
       Tx(T(0, 5), "2", 1800, "expense", <<"Entertainment">>, "Movie and dinner",
          IsoZ(19462, 72000000)),
       Tx(T(0, 6), "1", 10000, "expense", <<"Rent">>, "Monthly rent",
          IsoZ(19449, 39600000)) >>

-----------------------------------------------------------------------------
(* JSON.stringify / JSON.parse of the two persisted values *)

\* keys of a user object in the order the object literals create them
UserKeys == <<"id", "name", "email", "password", "isAdmin">>

\* JSON.stringify(u): every own key of u with its value, in key order
stringifyUser(u) ==
    LET keys == SelectSeq(UserKeys, LAMBDA k : k \in DOMAIN u)
    IN  [json |-> [i \in 1..Len(keys) |-> [key |-> keys[i], value |-> u[keys[i]]]]]

\* JSON.parse(s): an object with the keys the text holds
parseUser(s) ==
    [k \in {s.json[i].key : i \in 1..Len(s.json)} |->
        s.json[CHOOSE i \in 1..Len(s.json) : s.json[i].key = k].value]

stringifyTransactions(ts) ==
    [json |-> [i \in 1..Len(ts) |->
        <<ts[i].id, ts[i].userId, ts[i].amount, ts[i].type, ts[i].category,
          ts[i].description, ts[i].date>>]]

parseTransactions(s) ==
    [i \in 1..Len(s.json) |->
        Tx(s.json[i][1], s.json[i][2], s.json[i][3], s.json[i][4],
           s.json[i][5], s.json[i][6], s.json[i][7])]

-----------------------------------------------------------------------------
(* Array helpers *)

Min(a, b) == IF a < b THEN a ELSE b

Max(a, b) == IF a > b THEN a ELSE b

\* Array.prototype.slice(0, end)
slice0(s, end) ==
    LET e == IF end < 0 THEN Max(Len(s) + end, 0) ELSE Min(end, Len(s))
    IN  SubSeq(s, 1, e)

\* the comparator (a, b) => new Date(b.date).getTime() - new Date(a.date).getTime()
byDateDesc(a, b) == TimeCmp(getTime(b.date), getTime(a.date))

\* (mutation) an unstable sort: x is placed before the elements it ties with
RECURSIVE insertStable_TiesFirst(_, _)
insertStable_TiesFirst(s, x) ==
    IF s = <<>> THEN <<x>>
    ELSE IF byDateDesc(Head(s), x) < 0
         THEN <<Head(s)>> \o insertStable_TiesFirst(Tail(s), x)
         ELSE <<x>> \o s

\* Array.prototype.sort is stable: x is placed after every element that the
\* comparator does not order after it
RECURSIVE insertStable(_, _)
insertStable(s, x) ==
    IF s = <<>> THEN <<x>>
    ELSE IF byDateDesc(Head(s), x) <= 0
         THEN <<Head(s)>> \o insertStable(Tail(s), x)
         ELSE <<x>> \o s

RECURSIVE sortPrefix(_, _)
sortPrefix(s, n) ==
    IF n = 0 THEN <<>> ELSE insertStable(sortPrefix(s, n - 1), s[n])

sort(s) == sortPrefix(s, Len(s))

-----------------------------------------------------------------------------
(* Transaction Store queries; ts and u are the values the closure captured *)

getAllTransactions(ts) == sort(ts)

\* (mutation) the sort without the filter
getUserTransactions_NoFilter(ts, userId) == sort(ts)

\* (mutation) the filter without the sort
getUserTransactions_Unsorted(ts, userId) ==
    SelectSeq(ts, LAMBDA t : t.userId = userId)

getUserTransactions(ts, userId) ==
    sort(SelectSeq(ts, LAMBDA t : t.userId = userId))

\* (mutation) slice(0, limit + 1)
getRecentTransactions_OneMore(ts, u, args) ==
    LET limit == IF Len(args) >= 1 THEN args[1] ELSE 5
    IN  IF u = null THEN <<>>
        ELSE slice0(sort(SelectSeq(ts, LAMBDA t : t.userId = u.id)), limit + 1)

\* args is the argument list of the call: <<>> takes the default limit = 5
getRecentTransactions(ts, u, args) ==
    LET limit == IF Len(args) >= 1 THEN args[1] ELSE 5
    IN  IF u = null THEN <<>>
        ELSE slice0(sort(SelectSeq(ts, LAMBDA t : t.userId = u.id)), limit)

-----------------------------------------------------------------------------
(* Date: calendar fields of an instant (proleptic Gregorian calendar) *)

\* [year, month (1..12), date] of the day number d (days since 1970-01-01)
civil(d) ==
    LET z   == d + 719468
        era == z \div 146097
        doe == z - era * 146097
        yoe == (doe - (doe \div 1460) + (doe \div 36524) - (doe \div 146096)) \div 365
        doy == doe - (365 * yoe + (yoe \div 4) - (yoe \div 100))
        mp  == (5 * doy + 2) \div 153
        dd  == doy - ((153 * mp + 2) \div 5) + 1
        mm  == IF mp < 10 THEN mp + 3 ELSE mp - 9
        yy  == yoe + era * 400 + (IF mm <= 2 THEN 1 ELSE 0)
    IN  [year |-> yy, month |-> mm, date |-> dd]

MonthShort ==
    <<"Jan", "Feb", "Mar", "Apr", "May", "Jun",
      "Jul", "Aug", "Sep", "Oct", "Nov", "Dec">>

WeekdayShort == <<"Sun", "Mon", "Tue", "Wed", "Thu", "Fri", "Sat">>

\* (mutation) the label takes the year from the clock
monthNameOf_YearOfToday(t) ==
    [month |-> MonthShort[civil(t.day).month], year |-> civil(now.day).year]

\* date.toLocaleString('en-US', { month: 'short', year: 'numeric' }), "Apr 2023"
monthNameOf(t) ==
    LET c == civil(t.day) IN [month |-> MonthShort[c.month], year |-> c.year]

\* date.toLocaleString('en-US', { weekday: 'short' }); 1970-01-01 was a Thursday
dayNameOf(t) == WeekdayShort[((t.day + 4) % 7) + 1]

\* Math.floor((today.getTime() - date.getTime()) / (1000 * 60 * 60 * 24))
daysDiffOf(today, date) ==
    (today.day - date.day) + (IF today.ms >= date.ms THEN 0 ELSE -1)

-----------------------------------------------------------------------------
(* Record<string, V> as the sequence of its entries in insertion order *)

HasKey(obj, k) == \E i \in 1..Len(obj) : obj[i].key = k

IndexOfKey(obj, k) == CHOOSE i \in 1..Len(obj) : obj[i].key = k

\* obj[k] = v
SetKey(obj, k, v) ==
    IF HasKey(obj, k)
    THEN [obj EXCEPT ![IndexOfKey(obj, k)] = [key |-> k, value |-> v]]
    ELSE Append(obj, [key |-> k, value |-> v])

GetKey(obj, k) == obj[IndexOfKey(obj, k)].value

\* data.income += amount or data.expense += amount, by transaction type
addAmount(data, t) ==
    IF t.type = "income"
    THEN [data EXCEPT !.income = @ + t.amount]
    ELSE [data EXCEPT !.expense = @ + t.amount]

-----------------------------------------------------------------------------
(* Analytics Aggregator *)

RECURSIVE monthlyFold(_, _, _)
monthlyFold(ts, n, acc) ==
    IF n > Len(ts) THEN acc
    ELSE LET monthName == monthNameOf(getTime(ts[n].date))
             seeded == IF HasKey(acc, monthName) THEN acc
                       ELSE SetKey(acc, monthName, [income |-> 0, expense |-> 0])
         IN  monthlyFold(ts, n + 1,
                 SetKey(seeded, monthName, addAmount(GetKey(seeded, monthName), ts[n])))

\* (mutation) slice(0, 6)
sliceLast6_First6(s) == SubSeq(s, 1, Min(6, Len(s)))

\* Array.prototype.slice(-6)
sliceLast6(s) == SubSeq(s, Max(Len(s) - 6, 0) + 1, Len(s))

getMonthlyData(ts, u) ==
    IF u = null THEN <<>>
    ELSE LET userTransactions == SelectSeq(ts, LAMBDA t : t.userId = u.id)
             monthlyData == monthlyFold(userTransactions, 1, <<>>)
         IN  sliceLast6([i \in 1..Len(monthlyData) |->
                 [month |-> monthlyData[i].key,
                  income |-> monthlyData[i].value.income,
                  expense |-> monthlyData[i].value.expense]])

\* (mutation) for (let i = 0; i <= 6; i++): today's bucket is created first
RECURSIVE dailySeed_TodayFirst(_, _, _)
dailySeed_TodayFirst(today, i, acc) ==
    IF i < 0 THEN acc
    ELSE dailySeed_TodayFirst(today, i - 1,
             SetKey(acc, dayNameOf(T(today.day - (6 - i), today.ms)),
                    [income |-> 0, expense |-> 0]))

\* for (let i = 6; i >= 0; i--) dailyData[dayName(today - i days)] = zero
RECURSIVE dailySeed(_, _, _)
dailySeed(today, i, acc) ==
    IF i < 0 THEN acc
    ELSE dailySeed(today, i - 1,
             SetKey(acc, dayNameOf(T(today.day - i, today.ms)),
                    [income |-> 0, expense |-> 0]))

RECURSIVE dailyFold(_, _, _, _)
dailyFold(ts, n, today, acc) ==
    IF n > Len(ts) THEN acc
    ELSE LET date == getTime(ts[n].date)
             dayName == dayNameOf(date)
         IN  dailyFold(ts, n + 1, today,
                 IF daysDiffOf(today, date) < 7
                 THEN SetKey(acc, dayName, addAmount(GetKey(acc, dayName), ts[n]))
                 ELSE acc)

\* (mutation) no early return: without a session the seven empty buckets
getDailyData_NoGuard(ts, u, today) ==
    LET userTransactions ==
            SelectSeq(ts, LAMBDA t : u # null /\ t.userId = u.id)
        dailyData == dailyFold(userTransactions, 1, today,
                               dailySeed(today, 6, <<>>))
    IN  [i \in 1..Len(dailyData) |->
            [day |-> dailyData[i].key,
             income |-> dailyData[i].value.income,
             expense |-> dailyData[i].value.expense]]

getDailyData(ts, u, today) ==
    IF u = null THEN <<>>
    ELSE LET userTransactions == SelectSeq(ts, LAMBDA t : t.userId = u.id)
             dailyData == dailyFold(userTransactions, 1, today,
                                    dailySeed(today, 6, <<>>))
         IN  [i \in 1..Len(dailyData) |->
                 [day |-> dailyData[i].key,
                  income |-> dailyData[i].value.income,
                  expense |-> dailyData[i].value.expense]]

\* `${transaction.category}-${transaction.type}`, as hyphen-separated segments
categoryKey(t) == Append(t.category, t.type)

RECURSIVE categoryFold(_, _, _)
categoryFold(ts, n, acc) ==
    IF n > Len(ts) THEN acc
    ELSE LET key == categoryKey(ts[n])
             seeded == IF HasKey(acc, key) THEN acc
                       ELSE SetKey(acc, key, [amount |-> 0, type |-> ts[n].type])
             entry == GetKey(seeded, key)
         IN  categoryFold(ts, n + 1,
                 SetKey(seeded, key, [entry EXCEPT !.amount = @ + ts[n].amount]))

getCategoryData(ts, u) ==
    IF u = null THEN <<>>
    ELSE LET userTransactions == SelectSeq(ts, LAMBDA t : t.userId = u.id)
             categoryData == categoryFold(userTransactions, 1, <<>>)
         IN  [i \in 1..Len(categoryData) |->
                 \* const [category] = key.split('-')
                 [category |-> <<Head(categoryData[i].key)>>,
                  amount |-> categoryData[i].value.amount,
                  type |-> categoryData[i].value.type]]

-----------------------------------------------------------------------------
(* Inputs *)

\* (mutation) the account is passed on as it is
withoutPassword_Keeps(account) == account

\* const { password, ...userWithoutPassword } = account
withoutPassword(account) ==
    [id |-> account.id, name |-> account.name, email |-> account.email,
     isAdmin |-> account.isAdmin]

StartOfRun == T(19463, 43200000)        \* the clock at first start: 2023-04-16T12:00:00.000Z

\* Amounts of time that pass between two operations: 1 ms, or a whole day
TickSteps == {T(0, 1), T(1, 0)}

plusTime(t, d) ==
    LET m == t.ms + d.ms
    IN  T(t.day + d.day + (m \div DayMs), m % DayMs)

Credentials ==
    { [email |-> "admin@example.com", password |-> "admin123"],
      [email |-> "user@example.com",  password |-> "user123"],
      [email |-> "admin@example.com", password |-> "user123"],
      [email |-> "bad@x.com",         password |-> "wrong"],
      [email |-> "new@example.com",   password |-> "new123"] }

Registrations ==
    { [name |-> "New User", email |-> "new@example.com",   password |-> "new123"],
      [name |-> "Twin",     email |-> "new@example.com",   password |-> "twin12"],
      [name |-> "Impostor", email |-> "admin@example.com", password |-> "new123"] }

\* Arguments of addTransaction: the date key is optional
AddInputs ==
    { [amount |-> 2500, type |-> "expense", category |-> <<"Transport">>,
       description |-> "Fuel"],
      [amount |-> 700, type |-> "income", category |-> <<"Food">>,
       description |-> "", date |-> toISOString(T(19452, 55800000))],
      [amount |-> 5000, type |-> "expense", category |-> <<"Food">>,
       description |-> "Grocery shopping", date |-> IsoZ(19497, 0)],
      [amount |-> 300, type |-> "expense", category |-> <<"Food", "Delivery">>,
       description |-> "Pizza"] }

\* Owner ids asked of getUserTransactions
OwnerIds == {"1", "2", "3", ""}

-----------------------------------------------------------------------------
(* State after construction: module load and the first render *)

\* localStorage at first start: empty, or what an earlier run that ended with
\* a seed account logged in and the seed ledger installed has left
InitialStorage ==
    { [k \in {"user", "transactions"} |-> null] } \cup
    { [user |-> stringifyUser(withoutPassword(MOCK_USERS_INITIAL[i])),
       transactions |-> stringifyTransactions(SAMPLE_TRANSACTIONS)] :
         i \in 1..Len(MOCK_USERS_INITIAL) }

Init ==
    /\ MOCK_USERS = MOCK_USERS_INITIAL
    /\ user = null
    /\ isLoading = TRUE
    /\ transactions = <<>>
    /\ localStorage \in InitialStorage
    /\ rendered = [user |-> null, transactions |-> <<>>]
    /\ timers = <<>>
    /\ now = StartOfRun
    /\ phase = "mounted"
    /\ last = [op |-> "init"]
    /\ addsSinceRender = <<>>
    /\ shown = <<>>
    /\ calls = 0

-----------------------------------------------------------------------------
(* Mount effects *)

\* (mutation) the sample data is installed at every start
loadedTransactions_AlwaysSample(storedTransactions) == SAMPLE_TRANSACTIONS

\* what the load effect passes to setTransactions
loadedTransactions(storedTransactions) ==
    IF storedTransactions # null THEN parseTransactions(storedTransactions)
    ELSE SAMPLE_TRANSACTIONS

\* TransactionProvider: useEffect(() => {...}, [])
LoadEffect ==
    /\ phase = "mounted"
    /\ LET storedTransactions == localStorage["transactions"]
       IN  /\ transactions' = loadedTransactions(storedTransactions)
           /\ IF storedTransactions # null
              THEN UNCHANGED localStorage
              ELSE localStorage' = [localStorage EXCEPT !["transactions"] =
                                       stringifyTransactions(SAMPLE_TRANSACTIONS)]
    /\ phase' = "loaded"
    /\ last' = [op |-> "load", seeded |-> localStorage["transactions"] = null]
    /\ UNCHANGED <<MOCK_USERS, user, isLoading, rendered, timers, now,
                   addsSinceRender, shown, calls>>

\* (mutation) the stored session is adopted only if its id is in MOCK_USERS
userAfterRestore_Revalidated(current, storedUser) ==
    IF storedUser # null
       /\ \E i \in 1..Len(MOCK_USERS) : MOCK_USERS[i].id = parseUser(storedUser).id
    THEN parseUser(storedUser)
    ELSE current

\* if (storedUser) setUser(JSON.parse(storedUser))
userAfterRestore(current, storedUser) ==
    IF storedUser # null THEN parseUser(storedUser) ELSE current

\* AuthProvider: useEffect(() => {...}, [])
RestoreEffect ==
    /\ phase = "loaded"
    /\ user' = userAfterRestore(user, localStorage["user"])
    /\ isLoading' = FALSE
    /\ phase' = "ready"
    /\ last' = [op |-> "restore"]
    /\ UNCHANGED <<MOCK_USERS, transactions, localStorage, rendered, timers, now,
                   addsSinceRender, shown, calls>>

\* (mutation) the queries sort the state array itself
ledgerAfterReads_InPlace(ts) == sort(ts)

\* the queries a render runs sort a copy ([...transactions].sort) or the
\* array filter() returned: the state array keeps its elements and order
ledgerAfterReads(ts) == ts

\* React re-renders the providers: new closures capture the current state,
\* and the pages run the queries
Render ==
    /\ phase = "ready"
    /\ rendered # [user |-> user, transactions |-> transactions]
    /\ transactions' = ledgerAfterReads(transactions)
    /\ rendered' = [user |-> user, transactions |-> transactions']
    /\ shown' = addsSinceRender
    /\ addsSinceRender' = <<>>
    /\ UNCHANGED <<MOCK_USERS, user, isLoading, localStorage,
                   timers, now, phase, last, calls>>

-----------------------------------------------------------------------------
(* Session Manager *)

\* MOCK_USERS.find(u => u.email === email && u.password === password)
findUser(users, email, password) ==
    LET hits == SelectSeq(users, LAMBDA u : u.email = email /\ u.password = password)
    IN  IF hits = <<>> THEN null ELSE Head(hits)

\* (mutation) only the two built-in accounts are looked at
userExists_BuiltInOnly(users, email) ==
    \E i \in 1..Min(2, Len(users)) : users[i].email = email

\* MOCK_USERS.some(u => u.email === email)
userExists(users, email) == \E i \in 1..Len(users) : users[i].email = email

\* login(email, password) up to the setTimeout
login(c) ==
    /\ phase = "ready"
    /\ calls < MaxCalls
    /\ isLoading' = TRUE
    /\ timers' = Append(timers, [op |-> "login", email |-> c.email,
                                  password |-> c.password])
    /\ calls' = calls + 1
    /\ last' = [op |-> "login"]
    /\ UNCHANGED <<MOCK_USERS, user, transactions, localStorage, rendered, now,
                   phase, addsSinceRender, shown>>

\* (mutation) a failed login clears the session
userAfterLogin_ClearsOnFail(current, foundUser) ==
    IF foundUser # null THEN withoutPassword(foundUser) ELSE null

\* (mutation) a login does not replace a session that is already set
userAfterLogin_FirstWins(current, foundUser) ==
    IF foundUser # null /\ current = null THEN withoutPassword(foundUser)
    ELSE current

\* what the login callback leaves in `user`: setUser(userWithoutPassword) on a
\* match, nothing otherwise
userAfterLogin(current, foundUser) ==
    IF foundUser # null THEN withoutPassword(foundUser) ELSE current

\* (mutation) the session is set but not persisted
storedAfterLogin_NotPersisted(current, foundUser) == current

\* what the login callback leaves under the localStorage key "user"
storedAfterLogin(current, foundUser) ==
    IF foundUser # null THEN stringifyUser(withoutPassword(foundUser)) ELSE current

\* resolve(true) or resolve(false)
resolvedByLogin(foundUser) == foundUser # null

\* (mutation) the callback runs to its end only on a match: on a miss the
\* promise stays pending
loginTimeout_OnlyOnMatch ==
    /\ timers # <<>>
    /\ Head(timers).op = "login"
    /\ findUser(MOCK_USERS, Head(timers).email, Head(timers).password) # null
    /\ LET req == Head(timers)
           foundUser == findUser(MOCK_USERS, req.email, req.password)
       IN  /\ user' = userAfterLogin(user, foundUser)
           /\ localStorage' = [localStorage EXCEPT !["user"] =
                                   storedAfterLogin(@, foundUser)]
           /\ last' = [op |-> "loginDone", req |-> req,
                       resolved |-> resolvedByLogin(foundUser),
                       overlapped |-> last.op = "loginDone",
                       won |-> foundUser]
    /\ isLoading' = FALSE
    /\ timers' = Tail(timers)
    /\ UNCHANGED <<MOCK_USERS, transactions, rendered, now, phase,
                   addsSinceRender, shown, calls>>

\* the setTimeout callback of login
loginTimeout ==
    /\ timers # <<>>
    /\ Head(timers).op = "login"
    /\ LET req == Head(timers)
           foundUser == findUser(MOCK_USERS, req.email, req.password)
       IN  /\ user' = userAfterLogin(user, foundUser)
           /\ localStorage' = [localStorage EXCEPT !["user"] =
                                   storedAfterLogin(@, foundUser)]
           \* overlapped: the previous operation was a login completion too,
           \* so both calls were in flight together; won: the account of the
           \* latest match in such a run of completions
           /\ last' = [op |-> "loginDone", req |-> req,
                       resolved |-> resolvedByLogin(foundUser),
                       overlapped |-> last.op = "loginDone",
                       won |-> IF foundUser # null THEN foundUser
                               ELSE IF last.op = "loginDone" THEN last.won
                               ELSE null]
    /\ isLoading' = FALSE
    /\ timers' = Tail(timers)
    /\ UNCHANGED <<MOCK_USERS, transactions, rendered, now, phase,
                   addsSinceRender, shown, calls>>

\* register(name, email, password) up to the setTimeout
register(r) ==
    /\ phase = "ready"
    /\ calls < MaxCalls
    /\ isLoading' = TRUE
    /\ timers' = Append(timers, [op |-> "register", name |-> r.name,
                                  email |-> r.email, password |-> r.password])
    /\ calls' = calls + 1
    /\ last' = [op |-> "register"]
    /\ UNCHANGED <<MOCK_USERS, user, transactions, localStorage, rendered, now,
                   phase, addsSinceRender, shown>>

\* (mutation) id: String(MOCK_USERS.length)
newUserOf_IdIsLength(users, req) ==
    [id |-> ToString(Len(users)), name |-> req.name, email |-> req.email,
     password |-> req.password, isAdmin |-> FALSE]

\* const newUser = { id: String(MOCK_USERS.length + 1), name, email, password,
\*                   isAdmin: false }
newUserOf(users, req) ==
    [id |-> ToString(Len(users) + 1), name |-> req.name, email |-> req.email,
     password |-> req.password, isAdmin |-> FALSE]

\* (mutation) the account is added whether or not the email exists
registryAfterRegister_NoCheck(users, req) == Append(users, newUserOf(users, req))

\* what the register callback leaves in MOCK_USERS: [...MOCK_USERS, newUser]
\* unless the email exists
registryAfterRegister(users, req) ==
    IF userExists(users, req.email) THEN users
    ELSE Append(users, newUserOf(users, req))

\* what the register callback leaves in `user`
userAfterRegister(current, users, req) ==
    IF userExists(users, req.email) THEN current
    ELSE withoutPassword(newUserOf(users, req))

\* (mutation) the new session is set but not persisted
storedAfterRegister_NotPersisted(current, users, req) == current

\* what the register callback leaves under the localStorage key "user"
storedAfterRegister(current, users, req) ==
    IF userExists(users, req.email) THEN current
    ELSE stringifyUser(withoutPassword(newUserOf(users, req)))

\* resolve(false) or resolve(true)
resolvedByRegister(users, req) == ~userExists(users, req.email)

\* the setTimeout callback of register
registerTimeout ==
    /\ timers # <<>>
    /\ Head(timers).op = "register"
    /\ LET req == Head(timers)
       IN  /\ MOCK_USERS' = registryAfterRegister(MOCK_USERS, req)
           /\ user' = userAfterRegister(user, MOCK_USERS, req)
           /\ localStorage' = [localStorage EXCEPT !["user"] =
                                   storedAfterRegister(@, MOCK_USERS, req)]
           /\ last' = [op |-> "registerDone", req |-> req,
                       resolved |-> resolvedByRegister(MOCK_USERS, req)]
    /\ isLoading' = FALSE
    /\ timers' = Tail(timers)
    /\ UNCHANGED <<transactions, rendered, now, phase, addsSinceRender, shown,
                   calls>>

\* (mutation) logout does nothing while a request is in flight
logout_NotWhileLoading ==
    /\ phase = "ready"
    /\ calls < MaxCalls
    /\ ~isLoading
    /\ calls' = calls + 1
    /\ user' = null
    /\ localStorage' = [localStorage EXCEPT !["user"] = null]
    /\ last' = [op |-> "logout"]
    /\ UNCHANGED <<MOCK_USERS, isLoading, transactions, rendered, timers, now,
                   phase, addsSinceRender, shown>>

logout ==
    /\ phase = "ready"
    /\ calls < MaxCalls
    /\ calls' = calls + 1
    /\ user' = null
    /\ localStorage' = [localStorage EXCEPT !["user"] = null]
    /\ last' = [op |-> "logout"]
    /\ UNCHANGED <<MOCK_USERS, isLoading, transactions, rendered, timers, now,
                   phase, addsSinceRender, shown>>

-----------------------------------------------------------------------------
(* Transaction Store: addTransaction, called through the closure of the last
   render (u and ts are the user and the transactions that render captured) *)

\* { id, userId, date: transaction.date || now, ...transaction }
newTransactionOf(u, t, transaction) ==
    transaction @@
    [id |-> NowId(t),
     userId |-> u.id,
     date |-> IF "date" \in DOMAIN transaction THEN transaction.date
              ELSE toISOString(t)]

\* [...transactions, newTransaction]
updatedTransactionsOf(ts, newTransaction) == Append(ts, newTransaction)

\* (mutation) persists the list without the record just appended
persistedOf_Stale(updatedTransactions) ==
    stringifyTransactions(SubSeq(updatedTransactions, 1, Len(updatedTransactions) - 1))

\* what addTransaction writes to localStorage for the list it has set
persistedOf(updatedTransactions) == stringifyTransactions(updatedTransactions)

addTransaction(transaction) ==
    /\ phase = "ready"
    /\ calls < MaxCalls
    /\ calls' = calls + 1
    /\ IF rendered.user = null
       THEN /\ last' = [op |-> "add", created |-> FALSE]
            /\ UNCHANGED <<transactions, localStorage, addsSinceRender>>
       ELSE LET newTransaction == newTransactionOf(rendered.user, now, transaction)
                updatedTransactions ==
                    updatedTransactionsOf(rendered.transactions, newTransaction)
            IN  /\ transactions' = updatedTransactions
                /\ localStorage' = [localStorage EXCEPT !["transactions"] =
                                        persistedOf(updatedTransactions)]
                /\ last' = [op |-> "add", created |-> TRUE,
                            tx |-> newTransaction, session |-> rendered.user.id,
                            dated |-> "date" \in DOMAIN transaction]
                /\ addsSinceRender' = Append(addsSinceRender,
                       [tx |-> newTransaction, session |-> rendered.user.id])
    /\ UNCHANGED <<MOCK_USERS, user, isLoading, rendered, timers, now, phase, shown>>

-----------------------------------------------------------------------------
(* Environment *)

\* time passes
Tick(d) ==
    /\ calls < MaxCalls
    /\ now' = plusTime(now, d)
    /\ calls' = calls + 1
    /\ UNCHANGED <<MOCK_USERS, user, isLoading, transactions, localStorage,
                   rendered, timers, phase, last, addsSinceRender, shown>>

\* the page is reloaded: module state and React state start over, pending
\* timers are dropped, localStorage survives
Restart ==
    /\ phase = "ready"
    /\ calls < MaxCalls
    /\ MOCK_USERS' = MOCK_USERS_INITIAL
    /\ user' = null
    /\ isLoading' = TRUE
    /\ transactions' = <<>>
    /\ rendered' = [user |-> null, transactions |-> <<>>]
    /\ timers' = <<>>
    /\ phase' = "mounted"
    /\ last' = [op |-> "restart"]
    /\ addsSinceRender' = <<>>
    /\ shown' = <<>>
    /\ calls' = calls + 1
    /\ UNCHANGED <<localStorage, now>>

Next ==
    \/ LoadEffect
    \/ RestoreEffect
    \/ Render
    \/ \E c \in Credentials : login(c)
    \/ loginTimeout
    \/ \E r \in Registrations : register(r)
    \/ registerTimeout
    \/ logout
    \/ \E transaction \in AddInputs : addTransaction(transaction)
    \/ \E d \in TickSteps : Tick(d)
    \/ Restart

Spec == Init /\ [][Next]_vars

-----------------------------------------------------------------------------
(* A start after a longer history: the ledger that an earlier run has
   persisted after account "1" added seven records, dated in six earlier
   months, through addTransaction with a date *)

EarlierAdds ==
    << Tx(T(19460, 1), "1", 1200, "expense", <<"Bills">>, "Power",
          toISOString(T(19426, 0))),                       \* 2023-03-10
       Tx(T(19460, 2), "1", 800, "expense", <<"Food">>, "",
          toISOString(T(19398, 0))),                       \* 2023-02-10
       Tx(T(19460, 3), "1", 40000, "income", <<"Salary">>, "",
          toISOString(T(19367, 0))),                       \* 2023-01-10
       Tx(T(19460, 4), "1", 950, "expense", <<"Health">>, "",
          toISOString(T(19336, 0))),                       \* 2022-12-10
       Tx(T(19460, 5), "1", 3000, "income", <<"Gift">>, "",
          toISOString(T(19306, 0))),                       \* 2022-11-10
       Tx(T(19460, 6), "1", 600, "expense", <<"Food">>, "",
          toISOString(T(19092, 0))),                       \* 2022-04-10
       Tx(T(19460, 7), "1", 450, "income", <<"Other">>, "",
          toISOString(T(19427, 0))) >>                     \* 2023-03-11

LongLedger == SAMPLE_TRANSACTIONS \o EarlierAdds

InitLong ==
    /\ MOCK_USERS = MOCK_USERS_INITIAL
    /\ user = null
    /\ isLoading = TRUE
    /\ transactions = <<>>
    /\ localStorage \in
          { [user |-> stringifyUser(withoutPassword(MOCK_USERS_INITIAL[i])),
             transactions |-> stringifyTransactions(LongLedger)] :
               i \in 1..Len(MOCK_USERS_INITIAL) }
    /\ rendered = [user |-> null, transactions |-> <<>>]
    /\ timers = <<>>
    /\ now = StartOfRun
    /\ phase = "mounted"
    /\ last = [op |-> "init"]
    /\ addsSinceRender = <<>>
    /\ shown = <<>>
    /\ calls = 0

SpecLong == InitLong /\ [][Next]_vars

\* the first start of the application (nothing persisted), with the event
\* loop calling the callback of every pending setTimeout of the page
InitFirst == Init /\ localStorage["user"] = null

FairSpec ==
    InitFirst /\ [][Next]_vars /\ WF_vars(loginTimeout) /\ WF_vars(registerTimeout)

-----------------------------------------------------------------------------
(* Vocabulary of the properties *)

Occurrences(s, x) == Cardinality({i \in 1..Len(s) : s[i] = x})

Occurs(s, x) == \E i \in 1..Len(s) : s[i] = x

\* the persisted ledger, parsed
persistedLedger == parseTransactions(localStorage["transactions"])

\* the three read operations as the closures of the last render answer them
all == getAllTransactions(rendered.transactions)

forOwner(o) == getUserTransactions(rendered.transactions, o)

recent(args) == getRecentTransactions(rendered.transactions, rendered.user, args)

monthly == getMonthlyData(rendered.transactions, rendered.user)

daily == getDailyData(rendered.transactions, rendered.user, now)

byCategory == getCategoryData(rendered.transactions, rendered.user)

Reverse(s) == [i \in 1..Len(s) |-> s[Len(s) + 1 - i]]

SameInstant(a, b) == TimeCmp(getTime(a.date), getTime(b.date)) = 0

\* s is a permutation of ts
IsPermutation(s, ts) ==
    /\ Len(s) = Len(ts)
    /\ \A i \in 1..Len(ts) : Occurrences(s, ts[i]) = Occurrences(ts, ts[i])

\* no element of s is dated before a later element of s
DateDescending(s) ==
    \A i, j \in 1..Len(s) :
        i < j => TimeCmp(getTime(s[i].date), getTime(s[j].date)) >= 0

-----------------------------------------------------------------------------
(* C1 - read-after-write.  Every transaction created by an add since the
   previous render is, in the view the next render gives, in all() exactly
   once, and in forOwner(o) exactly for o = the session id the add saw.
   The code loses the first of two adds made through the same closure. *)
C1_ReadAfterWrite ==
    \A i \in 1..Len(shown) :
        /\ Occurrences(all, shown[i].tx) = 1
        /\ \A o \in OwnerIds :
              Occurs(forOwner(o), shown[i].tx) <=> (o = shown[i].session)

(* C2 - ledger records are permanent.  While the application is running, a
   step keeps every record of the ledger at its place, and a step that
   changes the ledger makes it exactly one record longer.  The code replaces
   the record of an earlier add when add is called twice through the same
   closure. *)
C2_RecordsPermanent ==
    [][ (phase = "ready" /\ phase' = "ready") =>
          /\ \A i \in 1..Len(transactions) :
                i <= Len(transactions') /\ transactions'[i] = transactions[i]
          /\ (transactions' # transactions =>
                Len(transactions') = Len(transactions) + 1) ]_vars

(* C3 - once the load effect has run, the persisted "transactions" entry,
   parsed, equals the in-memory ledger: same records, same order. *)
C3_PersistedEqualsMemory ==
    phase \in {"loaded", "ready"} =>
        /\ localStorage["transactions"] # null
        /\ persistedLedger = transactions

\* two adds have returned, one right after the other, and the two still agree
C3_Witness ==
    /\ last.op = "add" /\ last.created
    /\ Len(addsSinceRender) = 2
    /\ persistedLedger = transactions

(* C4 - the ids of the ledger are pairwise distinct, and the ids assigned by
   add (the seed ids are "1".."6") increase strictly in the order of the
   adds.  Date.now() gives two adds of the same millisecond the same id. *)
C4_DistinctIncreasingIds ==
    \A i, j \in 1..Len(transactions) :
        i < j =>
          /\ transactions[i].id # transactions[j].id
          /\ (transactions[i].id.day > 0 /\ transactions[j].id.day > 0 =>
                TimeCmp(transactions[j].id, transactions[i].id) > 0)

(* C5, as claimed - all() is a permutation of the ledger sorted by date
   descending, and records of equal date appear in descending insertion
   order (the later-inserted first).  The stable sort keeps them in
   ascending insertion order. *)
C5_TiesLatestFirst ==
    LET a == all
    IN  /\ IsPermutation(a, rendered.transactions)
        /\ DateDescending(a)
        /\ \A i \in 1..Len(a) :
              SelectSeq(a, LAMBDA t : SameInstant(t, a[i]))
                = Reverse(SelectSeq(rendered.transactions,
                                    LAMBDA t : SameInstant(t, a[i])))

(* C5, amended - all() is a permutation of the ledger sorted by date
   descending, and records of equal date appear in ascending insertion
   order (the earlier-inserted first). *)
C5_TiesEarliestFirst ==
    LET a == all
    IN  /\ IsPermutation(a, rendered.transactions)
        /\ DateDescending(a)
        /\ \A i \in 1..Len(a) :
              SelectSeq(a, LAMBDA t : SameInstant(t, a[i]))
                = SelectSeq(rendered.transactions, LAMBDA t : SameInstant(t, a[i]))

\* the rendered ledger holds two different records of the same date
C5_Witness ==
    LET a == all
    IN  \E i, j \in 1..Len(a) :
            i < j /\ SameInstant(a[i], a[j]) /\ a[i] # a[j]

(* C6 - for every owner id o, forOwner(o) is all() with the records of the
   other owners removed, in the same relative order. *)
C6_ForOwnerIsFilteredAll ==
    LET a == all
    IN  \A o \in OwnerIds :
            forOwner(o) = SelectSeq(a, LAMBDA t : t.userId = o)

\* an owner has two records of the same date, among records of another owner
C6_Witness ==
    \E o \in OwnerIds :
        LET f == forOwner(o)
        IN  /\ \E i, j \in 1..Len(f) : i < j /\ SameInstant(f[i], f[j])
            /\ Len(f) < Len(rendered.transactions)
            /\ Len(rendered.transactions) > Len(SAMPLE_TRANSACTIONS)

(* C7 - with an active session, recent(n) for a limit n >= 0, and recent()
   with the default limit 5, has at most that many items and is the first
   min(limit, length) elements of forOwner(session id). *)
C7_RecentIsPrefix ==
    rendered.user # null =>
        LET f == forOwner(rendered.user.id)
        IN  /\ \A n \in 0..MaxLimit :
                  /\ Len(recent(<<n>>)) <= n
                  /\ recent(<<n>>) = SubSeq(f, 1, Min(n, Len(f)))
            /\ Len(recent(<<>>)) <= 5
            /\ recent(<<>>) = SubSeq(f, 1, Min(5, Len(f)))

\* the session owner has more than five records: the default limit cuts
C7_Witness ==
    /\ rendered.user # null
    /\ Len(forOwner(rendered.user.id)) > 5

(* C8 - without an active session recent(), monthly(), daily() and
   byCategory() are empty, whatever the ledger holds. *)
C8_EmptyWithoutSession ==
    rendered.user = null =>
        /\ recent(<<>>) = <<>>
        /\ \A n \in 0..MaxLimit : recent(<<n>>) = <<>>
        /\ monthly = <<>>
        /\ daily = <<>>
        /\ byCategory = <<>>

\* no session, and a ledger with the seed records and an added one
C8_Witness ==
    /\ rendered.user = null
    /\ Len(rendered.transactions) > Len(SAMPLE_TRANSACTIONS)

\* the account at index i of the registry has exactly this email and secret
Matches(i, req) ==
    MOCK_USERS[i].email = req.email /\ MOCK_USERS[i].password = req.password

\* {id, name, email, isAdmin} of an account
IdentityOf(account) ==
    [id |-> account.id, name |-> account.name, email |-> account.email,
     isAdmin |-> account.isAdmin]

\* this step is the completion of the login request at the head of the timers
LoginCompletes ==
    /\ timers # <<>>
    /\ timers' = Tail(timers)
    /\ last'.op = "loginDone"
    /\ last'.req = Head(timers)

(* C9 - a login whose (email, secret) pair matches no account resolves to
   false and leaves the session and the persisted session entry as they
   were before its completion. *)
C9_FailedLoginKeepsSession ==
    [][ (LoginCompletes /\ ~\E i \in 1..Len(MOCK_USERS) : Matches(i, Head(timers)))
          => /\ last'.resolved = FALSE
             /\ user' = user
             /\ localStorage'["user"] = localStorage["user"] ]_vars

\* a login has failed while a session was set, and the session is still set
C9_Witness ==
    /\ last.op = "loginDone" /\ ~last.resolved
    /\ user # null
    /\ localStorage["user"] # null

(* C10 - a login whose (email, secret) pair exactly matches an account
   resolves to true, and at its completion the session and the persisted
   session entry both are that account's {id, name, email, isAdmin}. *)
C10_LoginSetsSession ==
    (last.op = "loginDone" /\ \E i \in 1..Len(MOCK_USERS) : Matches(i, last.req))
      => /\ last.resolved = TRUE
         /\ \E i \in 1..Len(MOCK_USERS) :
               /\ Matches(i, last.req)
               /\ user = IdentityOf(MOCK_USERS[i])
               /\ localStorage["user"] # null
               /\ parseUser(localStorage["user"]) = IdentityOf(MOCK_USERS[i])

\* an account registered in this run has logged in
C10_Witness ==
    /\ last.op = "loginDone" /\ last.resolved
    /\ last.req.email = "new@example.com"
    /\ user.id = "3"

\* this step is the completion of the register request at the head of the timers
RegisterCompletes ==
    /\ timers # <<>>
    /\ timers' = Tail(timers)
    /\ last'.op = "registerDone"
    /\ last'.req = Head(timers)

(* C11 - a register whose email is in the registry at its completion
   resolves to false, creates no account (the registry, and so its size, is
   as before) and leaves the session and the persisted session entry as
   they were. *)
C11_DuplicateRegisterFails ==
    [][ (RegisterCompletes
           /\ \E i \in 1..Len(MOCK_USERS) : MOCK_USERS[i].email = Head(timers).email)
          => /\ last'.resolved = FALSE
             /\ Len(MOCK_USERS') = Len(MOCK_USERS)
             /\ MOCK_USERS' = MOCK_USERS
             /\ user' = user
             /\ localStorage'["user"] = localStorage["user"] ]_vars

\* a register for the email of a built-in account has failed under a session
C11_Witness ==
    /\ last.op = "registerDone" /\ ~last.resolved
    /\ last.req.email = "admin@example.com"
    /\ user # null
    /\ localStorage["user"] # null
    /\ Len(MOCK_USERS) = Len(MOCK_USERS_INITIAL)

(* C12 - no two accounts of the registry have the same email, in every
   reachable state, also when several register calls for one email are in
   flight together. *)
C12_EmailsUnique ==
    \A i, j \in 1..Len(MOCK_USERS) :
        i < j => MOCK_USERS[i].email # MOCK_USERS[j].email

\* two register calls for the same new email were in flight together, with
\* different names; both have completed and the first one made the account
C12_Witness ==
    /\ last.op = "registerDone" /\ ~last.resolved
    /\ timers = <<>>
    /\ Len(MOCK_USERS) = 3
    /\ MOCK_USERS[3].email = last.req.email
    /\ MOCK_USERS[3].name # last.req.name

(* C13 - logout can be called in every state of the running application
   (whatever the session, the loading flag and the requests in flight), and
   right after it the session is null and localStorage has no "user" entry.
   The bound on the number of calls is the model's, not the program's. *)
C13_LogoutAlwaysClears ==
    /\ (phase = "ready" /\ calls < MaxCalls) => ENABLED logout
    /\ last.op = "logout" => (user = null /\ localStorage["user"] = null)

\* logout was called under a session that the page still shows, while a
\* request was in flight
C13_Witness ==
    /\ last.op = "logout"
    /\ rendered.user # null
    /\ timers # <<>>
    /\ isLoading

(* C14 - when login calls overlap and all have completed, the session and
   the persisted session entry are the identity of the account matched by
   the latest successful one of them; a failed login that completes after
   it changes neither. *)
C14_LastLoginWins ==
    (last.op = "loginDone" /\ last.overlapped /\ last.won # null /\ timers = <<>>)
      => /\ user = IdentityOf(last.won)
         /\ localStorage["user"] # null
         /\ parseUser(localStorage["user"]) = IdentityOf(last.won)

\* a failed login has completed after a successful one it overlapped with
C14_Witness ==
    /\ last.op = "loginDone" /\ last.overlapped /\ ~last.resolved
    /\ last.won # null
    /\ timers = <<>>
    /\ user # null

SessionKeys == {"id", "name", "email", "isAdmin"}

\* the keys of the object in the JSON text s
KeysOfJson(s) == {s.json[i].key : i \in 1..Len(s.json)}

(* C15 - the session and the persisted session entry never hold an account
   secret: whenever set, each has exactly the keys id, name, email and
   isAdmin, and none of these is the secret of the account of that id. *)
C15_NoSecretInSession ==
    /\ user # null =>
          /\ DOMAIN user = SessionKeys
          /\ \A i \in 1..Len(MOCK_USERS) :
                MOCK_USERS[i].id = user.id =>
                    \A k \in {"id", "name", "email"} :
                        user[k] # MOCK_USERS[i].password
    /\ localStorage["user"] # null =>
          /\ KeysOfJson(localStorage["user"]) = SessionKeys
          /\ \A i \in 1..Len(MOCK_USERS) :
                MOCK_USERS[i].id = parseUser(localStorage["user"]).id =>
                    \A n \in 1..Len(localStorage["user"].json) :
                        localStorage["user"].json[n].key # "isAdmin" =>
                            localStorage["user"].json[n].value
                                # MOCK_USERS[i].password

\* a register has just created an account and made it the session
C15_Witness ==
    /\ last.op = "registerDone" /\ last.resolved
    /\ user # null /\ user.id = "3"
    /\ localStorage["user"] # null
    /\ MOCK_USERS[3].password = last.req.password

\* this step is the restore effect of a process start
RestoreRuns == phase = "loaded" /\ phase' = "ready"

(* C16 - at a process start the restore effect sets the session to exactly
   the persisted session value when there is one, whether or not the
   registry has such an account, leaves it null when there is none, and
   does not write the persisted session entry. *)
C16_RestoreAdoptsPersisted ==
    [][ RestoreRuns =>
          /\ localStorage["user"] # null => user' = parseUser(localStorage["user"])
          /\ localStorage["user"] = null => user' = null
          /\ localStorage'["user"] = localStorage["user"] ]_vars

\* the session restored belongs to no account of the registry
C16_Witness ==
    /\ last.op = "restore"
    /\ user # null
    /\ localStorage["user"] # null
    /\ ~\E i \in 1..Len(MOCK_USERS) : MOCK_USERS[i].id = user.id

\* this step is the load effect of a process start
LoadRuns == phase = "mounted" /\ phase' = "loaded"

(* C17 - at a start without a persisted ledger the ledger becomes the
   six-record seed and the seed is persisted; at a start with a persisted
   ledger the ledger becomes exactly that value and nothing is written. *)
C17_SeedOnlyWhenAbsent ==
    [][ LoadRuns =>
          IF localStorage["transactions"] = null
          THEN /\ transactions' = SAMPLE_TRANSACTIONS
               /\ Len(transactions') = 6
               /\ localStorage'["transactions"] # null
               /\ parseTransactions(localStorage'["transactions"])
                     = SAMPLE_TRANSACTIONS
          ELSE /\ transactions' = parseTransactions(localStorage["transactions"])
               /\ localStorage' = localStorage ]_vars

\* a start has found a persisted ledger that is not the seed
C17_Witness ==
    /\ phase = "loaded"
    /\ last.op = "load" /\ ~last.seeded
    /\ Len(transactions) > Len(SAMPLE_TRANSACTIONS)
    /\ persistedLedger = transactions

(* C18 - every transaction of the ledger has the id of an account of the
   registry as its userId.  A page reload puts the registry back to the two
   built-in accounts while the ledger and the session of an account
   registered before the reload stay in localStorage. *)
C18_OwnerIsAccount ==
    \A n \in 1..Len(transactions) :
        \E i \in 1..Len(MOCK_USERS) : MOCK_USERS[i].id = transactions[n].userId

RECURSIVE SumAmount(_)
SumAmount(s) == IF s = <<>> THEN 0 ELSE Head(s).amount + SumAmount(Tail(s))

(* C19 - with a session, the amount of each byCategory() entry is the sum
   of the amounts of the forOwner(session id) records with the entry's
   category and type, and the amounts of all entries add up to the amounts
   of all forOwner(session id) records.  An entry made from records of a
   category with a hyphen carries only the part before the hyphen. *)
C19_CategorySums ==
    rendered.user # null =>
        LET f == forOwner(rendered.user.id)
            c == byCategory
        IN  /\ \A i \in 1..Len(c) :
                  c[i].amount =
                      SumAmount(SelectSeq(f, LAMBDA t :
                          t.category = c[i].category /\ t.type = c[i].type))
            /\ SumAmount(c) = SumAmount(f)

\* day-of-week label of the day k days before the day of t
LabelDaysAgo(t, k) == WeekdayShort[((t.day - k + 4) % 7) + 1]

(* C20 - with a session, daily() has exactly 7 entries whatever the ledger
   holds: entry i has the day-of-week label of the day 7 - i days before
   today (6 days ago first, today last), and an entry is zero unless a
   record of the session owner was folded into it. *)
C20_DailySevenEntries ==
    rendered.user # null =>
        LET d == daily
            f == forOwner(rendered.user.id)
        IN  /\ Len(d) = 7
            /\ \A i \in 1..7 :
                  /\ d[i].day = LabelDaysAgo(now, 7 - i)
                  /\ (d[i].income # 0 \/ d[i].expense # 0) =>
                        \E n \in 1..Len(f) :
                            /\ dayNameOf(getTime(f[n].date)) = d[i].day
                            /\ daysDiffOf(now, getTime(f[n].date)) < 7

\* the session owner has records, and none of them is of the last 7 days:
\* all seven entries are zero
C20_Witness ==
    /\ rendered.user # null
    /\ Len(forOwner(rendered.user.id)) > 0
    /\ LET d == daily
       IN  /\ Len(d) = 7
           /\ \A i \in 1..Len(d) : d[i].income = 0 /\ d[i].expense = 0

\* the records of the session owner, in ledger order
ownRecords == SelectSeq(rendered.transactions, LAMBDA t : t.userId = rendered.user.id)

\* t is dated not later than now and fewer than 7 whole days before now
InLastSevenDays(t) ==
    /\ TimeCmp(getTime(t.date), now) <= 0
    /\ daysDiffOf(now, getTime(t.date)) < 7

\* what the records of s that satisfy Counted give the bucket `label` for type ty
BucketSum(s, label, ty, Counted(_)) ==
    SumAmount(SelectSeq(s, LAMBDA t :
        /\ t.type = ty
        /\ dayNameOf(getTime(t.date)) = label
        /\ Counted(t)))

(* C21 - daily() covers the last 7 days including today: each bucket holds
   the amounts of exactly those records of the session owner that are dated
   not later than now and fewer than 7 whole days before now; no other
   record adds to a bucket.  The code only tests daysDiff < 7, which a
   record dated in the future passes. *)
C21_DailyLastSevenDays ==
    rendered.user # null =>
        LET d == daily
            own == ownRecords
        IN  \A i \in 1..Len(d) :
                /\ d[i].income = BucketSum(own, d[i].day, "income", InLastSevenDays)
                /\ d[i].expense = BucketSum(own, d[i].day, "expense", InLastSevenDays)

\* the (year, month) of the date of t, written as a bucket label
YearMonthOf(t) ==
    LET c == civil(getTime(t.date).day)
    IN  [month |-> MonthShort[c.month], year |-> c.year]

MonthSum(s, label, ty) ==
    SumAmount(SelectSeq(s, LAMBDA t : t.type = ty /\ YearMonthOf(t) = label))

(* C22 - with a session, every bucket of monthly() has as income the sum of
   the amounts of the owner's income records dated in the bucket's (year,
   month) and as expense the sum over the owner's expense records of that
   (year, month); no two buckets have the same (year, month). *)
C22_MonthlySums ==
    rendered.user # null =>
        LET m == monthly
            own == ownRecords
        IN  /\ \A i \in 1..Len(m) :
                  /\ m[i].income = MonthSum(own, m[i].month, "income")
                  /\ m[i].expense = MonthSum(own, m[i].month, "expense")
            /\ \A i, j \in 1..Len(m) : i < j => m[i].month # m[j].month

\* the owner has records of April 2022 and of April 2023, and a bucket made of
\* two records
C22_Witness ==
    /\ rendered.user # null
    /\ LET m == monthly
           own == ownRecords
       IN  /\ \E i \in 1..Len(m) : m[i].month = [month |-> "Apr", year |-> 2022]
           /\ \E n \in 1..Len(own) :
                 YearMonthOf(own[n]) = [month |-> "Apr", year |-> 2023]
           /\ \E i \in 1..Len(m) : m[i].income > 0 /\ m[i].expense > 0

\* the (year, month) labels of s in the order of their first occurrence
FirstSeenMonths(s) ==
    LET first == SelectSeq([n \in 1..Len(s) |-> n], LAMBDA n :
                     \A k \in 1..(n - 1) : YearMonthOf(s[k]) # YearMonthOf(s[n]))
    IN  [i \in 1..Len(first) |-> YearMonthOf(s[first[i]])]

(* C23 - monthly() has at most 6 buckets; they are the months of the
   owner's records in the order in which the fold first meets them, and
   when there are more than 6 months, the last 6 of that order. *)
C23_LastSixFirstSeen ==
    rendered.user # null =>
        LET m == monthly
            fs == FirstSeenMonths(ownRecords)
        IN  /\ Len(m) <= 6
            /\ [i \in 1..Len(m) |-> m[i].month]
                  = SubSeq(fs, Max(Len(fs) - 6, 0) + 1, Len(fs))

\* more than 6 months: April 2023, the latest month of the ledger but the
\* first one met, is cut and April 2022 is kept
C23_Witness ==
    /\ rendered.user # null
    /\ LET m == monthly
           fs == FirstSeenMonths(ownRecords)
       IN  /\ Len(fs) > 6
           /\ fs[1] = [month |-> "Apr", year |-> 2023]
           /\ ~\E i \in 1..Len(m) : m[i].month = fs[1]
           /\ \E i \in 1..Len(m) : m[i].month = [month |-> "Apr", year |-> 2022]

\* tx was created by an add without a date: its date is the clock reading
\* that also gave its id
Undated(tx) == tx.date.frac /\ getTime(tx.date) = tx.id

(* C24 - after an add without a date under the session s, the transaction
   it created is the first element of forOwner(s), in the view of the next
   render.  It is not when the owner has a record dated later than the
   clock (or at the same millisecond, added earlier), and not when a second
   add through the same closure has replaced it. *)
C24_UndatedAddIsFirst ==
    \A i \in 1..Len(shown) :
        Undated(shown[i].tx) =>
            LET f == forOwner(shown[i].session)
            IN  f # <<>> /\ Head(f) = shown[i].tx

SumOfType(s, ty) == SumAmount(SelectSeq(s, LAMBDA t : t.type = ty))

(* C25 - once a start has installed the seed and the page shows it, and
   until an add changes the ledger, the forOwner("1") records sum to income
   50000 and expense 15000. *)
C25_SeedTotalsOfAdmin ==
    (phase = "ready" /\ transactions = SAMPLE_TRANSACTIONS
       /\ rendered.transactions = transactions) =>
        LET f == forOwner("1")
        IN  /\ SumOfType(f, "income") = 50000
            /\ SumOfType(f, "expense") = 15000

\* a first start: nothing was persisted, no call has been made yet, and the
\* seed is persisted and shown
C25_Witness ==
    /\ phase = "ready"
    /\ calls = 0
    /\ localStorage["user"] = null
    /\ localStorage["transactions"] # null
    /\ rendered.transactions = SAMPLE_TRANSACTIONS
    /\ Len(forOwner("1")) = 3

\* this step is a call of addTransaction
AddCalled ==
    /\ phase = "ready" /\ phase' = "ready"
    /\ calls' = calls + 1
    /\ now' = now
    /\ timers' = timers
    /\ last'.op = "add"

(* C26 - an add attempted while the session is unset creates no
   transaction: the ledger and the persisted ledger stay as they are, and
   the call returns without one.  addTransaction tests the `user` of the
   render that made it, which is still set right after logout. *)
C26_NoAddWithoutSession ==
    [][ (AddCalled /\ user = null) =>
          /\ ~last'.created
          /\ transactions' = transactions
          /\ localStorage'["transactions"] = localStorage["transactions"] ]_vars

PairOf(t) == [category |-> t.category, type |-> t.type]

\* the (category, type) pairs of s in the order of their first occurrence
FirstSeenPairs(s) ==
    LET first == SelectSeq([n \in 1..Len(s) |-> n], LAMBDA n :
                     \A k \in 1..(n - 1) : PairOf(s[k]) # PairOf(s[n]))
    IN  [i \in 1..Len(first) |-> PairOf(s[first[i]])]

(* C27 - byCategory() has exactly one entry for each (category, type) pair
   of the owner's records, in the order of first occurrence, and the
   category of an entry is the whole category string of the records it
   sums.  key.split('-')[0] gives only the part before the first hyphen. *)
C27_OneEntryPerPair ==
    rendered.user # null =>
        LET c == byCategory
        IN  [i \in 1..Len(c) |-> [category |-> c[i].category, type |-> c[i].type]]
                = FirstSeenPairs(ownRecords)

(* C28 - in the running application isLoading is true whenever a login or
   register request is in flight, also after another overlapping request
   has completed, and false when none is.  Every completion sets isLoading
   to false, whatever else is in flight. *)
C28_LoadingIffInFlight ==
    phase = "ready" => (isLoading <=> timers # <<>>)

(* C29 - every login or register call that was started completes: while
   the page lives, the number of requests in flight sooner or later goes
   down, whatever calls (logout included) are made meanwhile, and a request
   leaves only through its callback, which resolves to true or false.  A
   page reload ends the page and its pending calls with it. *)
C29_RequestsComplete ==
    /\ [][ (timers # <<>> /\ timers' = Tail(timers) /\ phase' = "ready") =>
             /\ last'.op \in {"loginDone", "registerDone"}
             /\ last'.req = Head(timers)
             /\ last'.resolved \in BOOLEAN ]_vars
    /\ \A n \in 1..MaxCalls :
          (Len(timers) = n) ~> (Len(timers) < n \/ phase = "mounted")

\* a login has resolved to false after a logout that was called while it
\* was in flight, in a run that has also completed a register
C29_Witness ==
    /\ last.op = "loginDone" /\ ~last.resolved
    /\ timers = <<>>
    /\ Len(MOCK_USERS) = 3
    /\ user = null
    /\ localStorage["user"] = null

(* C30 - a register whose email is not in the registry at its completion
   resolves to true and appends exactly one account: its id is the string
   of (registry size before + 1) and differs from every id of the registry,
   isAdmin is false, and the session and the persisted session entry become
   its identity.  A later login of the same page with the email and secret
   of an account so registered succeeds and gives the same id, name, email
   and isAdmin. *)
C30_RegisterCreatesAccount ==
    /\ [][ (RegisterCompletes
              /\ ~\E i \in 1..Len(MOCK_USERS) :
                      MOCK_USERS[i].email = Head(timers).email)
           => /\ last'.resolved = TRUE
              /\ Len(MOCK_USERS') = Len(MOCK_USERS) + 1
              /\ SubSeq(MOCK_USERS', 1, Len(MOCK_USERS)) = MOCK_USERS
              /\ LET a == MOCK_USERS'[Len(MOCK_USERS')]
                 IN  /\ a.id = ToString(Len(MOCK_USERS) + 1)
                     /\ \A i \in 1..Len(MOCK_USERS) : MOCK_USERS[i].id # a.id
                     /\ a.isAdmin = FALSE
                     /\ a.name = Head(timers).name
                     /\ a.email = Head(timers).email
                     /\ a.password = Head(timers).password
                     /\ user' = IdentityOf(a)
                     /\ localStorage'["user"] # null
                     /\ parseUser(localStorage'["user"]) = IdentityOf(a) ]_vars
    /\ [](\A i \in (Len(MOCK_USERS_INITIAL) + 1)..Len(MOCK_USERS) :
            (last.op = "loginDone" /\ Matches(i, last.req)) =>
                /\ last.resolved = TRUE
                /\ user = IdentityOf(MOCK_USERS[i])
                /\ user.id = ToString(i)
                /\ user.isAdmin = FALSE)

\* the account "New User" was registered in this run and a login with its
\* email and secret has succeeded
C30_Witness ==
    /\ last.op = "loginDone" /\ last.resolved
    /\ Len(MOCK_USERS) = 3
    /\ MOCK_USERS[3].name = "New User"
    /\ last.req.email = MOCK_USERS[3].email
    /\ user = IdentityOf(MOCK_USERS[3])
    /\ calls = 3

(* C31 - once the restore effect has run, the session and the persisted
   session entry agree in every state between two operations: both are
   unset, or the entry is the JSON text of the session. *)
C31_SessionEqualsPersisted ==
    phase = "ready" =>
        IF user = null THEN localStorage["user"] = null
        ELSE /\ localStorage["user"] # null
             /\ parseUser(localStorage["user"]) = user
             /\ localStorage["user"] = stringifyUser(user)

\* a register has replaced the session of another account, with a login
\* still in flight
C31_Witness ==
    /\ last.op = "registerDone" /\ last.resolved
    /\ rendered.user # null /\ rendered.user.id # user.id
    /\ timers # <<>>
    /\ parseUser(localStorage["user"]).id = "3"

\* the records of the ledger ts that belong to the owner id o, in ledger order
RecordsOf(ts, o) == SelectSeq(ts, LAMBDA t : t.userId = o)

(* C32 - isolation of accounts.  recent, monthly, daily and byCategory
   under a session of an account are computed from the records with that
   account's id, so an add leaves them as they are exactly if it leaves
   those records as they are: an add made while the session is an account
   of email e changes the records of no account with another email.
   addTransaction stamps the record with the `user` of the render that made
   it, which is the previous account until the page renders again. *)
C32_AddTouchesOnlyOwnRecords ==
    [][ (AddCalled /\ user # null) =>
          \A i \in 1..Len(MOCK_USERS) :
              MOCK_USERS[i].email # user.email =>
                  /\ RecordsOf(transactions', MOCK_USERS[i].id)
                        = RecordsOf(transactions, MOCK_USERS[i].id)
                  /\ RecordsOf(parseTransactions(localStorage'["transactions"]),
                               MOCK_USERS[i].id)
                        = RecordsOf(persistedLedger, MOCK_USERS[i].id) ]_vars

(* C33 - after a logout the session and the persisted session entry stay
   unset until a login or register started after that logout succeeds: a
   request that was in flight when logout ran sets neither.  Stated for the
   first completion after a logout with no call in between, which is the
   completion of a request started before the logout.  Nothing cancels the
   timer of such a request. *)
C33_LogoutOutlivesPending ==
    [][ (last.op = "logout" /\ timers # <<>> /\ timers' = Tail(timers)
           /\ phase' = "ready")
          => /\ user' = null
             /\ localStorage'["user"] = null ]_vars

(* C34 - frame.  A login, register or logout, at its call and when its
   request completes, leaves the in-memory ledger and the persisted ledger
   as they are; an add leaves the session, the persisted session and the
   account registry as they are; the read operations (all, forOwner, recent,
   monthly, daily, byCategory), which run when the pages render, leave all
   five as they are, the order of the ledger included. *)
AuthCalled ==
    /\ phase = "ready" /\ phase' = "ready"
    /\ calls' = calls + 1
    /\ last'.op \in {"login", "register", "logout"}

AuthCompleted ==
    /\ phase = "ready" /\ phase' = "ready"
    /\ timers # <<>> /\ timers' = Tail(timers)

ReadsRun ==
    /\ phase = "ready" /\ phase' = "ready"
    /\ rendered' # rendered

LedgerKept ==
    /\ transactions' = transactions
    /\ localStorage'["transactions"] = localStorage["transactions"]

SessionKept ==
    /\ user' = user
    /\ localStorage'["user"] = localStorage["user"]
    /\ MOCK_USERS' = MOCK_USERS

C34_Frame ==
    [][ /\ (AuthCalled \/ AuthCompleted) => LedgerKept
        /\ AddCalled => SessionKept
        /\ ReadsRun => (LedgerKept /\ SessionKept) ]_vars

\* the pages have rendered the unsorted ledger left by an add that created
\* a record earlier than the last sample, under a session that a register
\* set: reads, an add and an authentication request have all acted
C34_Witness ==
    /\ Len(MOCK_USERS) = 3
    /\ user # null /\ user.id = "3"
    /\ Len(transactions) > Len(SAMPLE_TRANSACTIONS)
    /\ rendered.transactions = transactions
    /\ transactions # sort(transactions)
    /\ all # transactions

====
